---- MODULE Spec2Model ----
(***************************************************************************)
(* A model of ga4gh/client.py (HttpClient: the HTTP request runner, the    *)
(* two paginating generators, the single-object getter and the byte        *)
(* counter) and of the determinism contract of SimulatedVariantSet that    *)
(* tests/unit/test_simulator.py exercises.                                 *)
(*                                                                         *)
(* A generator is modelled with its position (gen.pc).  The caller's steps *)
(* are Call*, Pull, PullExhausted and Abandon; the steps of the generator  *)
(* body between two suspension points are Fetch, LoopExit, SearchFor,      *)
(* ListYield and ListResume, and no caller step is enabled while the body  *)
(* runs (the client is single-threaded and blocking).  The server is the   *)
(* environment: each HTTP exchange draws its response from Responses.      *)
(***************************************************************************)
EXTENDS Integers, Sequences, FiniteSets, TLC

\* ------------------------------------------------------------------ bounds

\* HTTP requests issued during one client session.
MaxRequests == 3
\* Elements in the list field of one page.
MaxPageLen == 2

\* Positions on the simulated reference.
MaxPosition == 3
\* Calls per simulated variant.
MaxNumCalls == 2

\* ------------------------------------------------------------- constants

\* requests.codes.ok
CodesOk == 200
Statuses == {CodesOk, 404}

\* Python's None, and the marker of a response class without the attribute.
None == "None"
\* The continuation tokens the server hands out, one per page served.
TokenNames == <<"abc", "def", "ghi", "jkl", "mno">>
Token(p) == TokenNames[((p - 1) % Len(TokenNames)) + 1]

\* httpData=None: no request body.
NoData == <<>>

\* workaroundGoogle = 'google'
workaroundGoogle == "google"

\* ------------------------------------------------------------- variables

VARIABLES
    urlPrefix,        \* self._urlPrefix, a sequence of path tokens
    workarounds,      \* self._workarounds
    key,              \* self._key
    bytesRead,        \* self._bytesRead
    sent,             \* HTTP requests issued since construction
    log,              \* the HTTP exchanges of the current operation
    protocolRequest,  \* the caller's request object, mutated by the runner
    gen,              \* the generator returned by the last run*Request call
    out,              \* what the generator has handed to the caller so far
    getResult,        \* outcome of the last runGetRequest
    sim               \* the simulated variant sets and their query results

vars == <<urlPrefix, workarounds, key, bytesRead, sent, log, protocolRequest,
          gen, out, getResult, sim>>

\* ---------------------------------------------------------------- helpers

RECURSIVE Flatten(_)
Flatten(ss) ==
    IF ss = <<>> THEN <<>> ELSE Head(ss) \o Flatten(Tail(ss))

Last(s) == s[Len(s)]

\* posixpath.join(a, b) on sequences of path tokens ("/" is a token).
posixpathJoin(a, b) ==
    IF b # <<>> /\ Head(b) = "/" THEN b
    ELSE IF a = <<>> \/ Last(a) = "/" THEN a \o b
    ELSE a \o <<"/">> \o b

\* str.format(id=..., objectName=...): replaces the two placeholders.
format(template, id, objectName) ==
    [i \in 1..Len(template) |->
        IF template[i] = "{id}" THEN id
        ELSE IF template[i] = "{objectName}" THEN objectName
        ELSE template[i]]

\* dict.update on dicts kept as sets of <<key, value>> pairs.
dictUpdate(d, e) ==
    {p \in d : \A q \in e : q[1] # p[1]} \cup e

\* ------------------------------------------------------- protocol objects

\* A request object: the continuation token and one filter field.
Requests == [pageToken : {None, "xyz"}, referenceName : {"ref"}]

\* ProtocolElement.toJsonString: the JSON text of the request object.
toJsonString(request) ==
    <<"json", <<"pageToken", request.pageToken>>,
              <<"referenceName", request.referenceName>>>>

\* ProtocolElement.toJsonDict: the request object as a flat mapping.
toJsonDict(request) ==
    {<<"pageToken", request.pageToken>>,
     <<"referenceName", request.referenceName>>}

\* The elements of the list field of the page answered by exchange p.
PageList(p, n) == [i \in 1..n |-> <<p, i>>]

\* What the server may answer to request p of an operation.  text is the
\* length of the body; valid says whether the body parses into the response
\* class; hasToken says whether the response class has a nextPageToken
\* attribute at all; n is the length of the list field.
Responses(p) ==
    [status : Statuses \ {CodesOk}, text : {1}, valid : {FALSE},
     hasToken : {FALSE}, nextPageToken : {None}, n : {0}]
    \cup
    [status : {CodesOk}, text : {2}, valid : {FALSE}, hasToken : {FALSE},
     nextPageToken : {None}, n : {0}]
    \cup
    {[status |-> CodesOk, text |-> 3 + n, valid |-> TRUE, hasToken |-> FALSE,
      nextPageToken |-> None, n |-> n] : n \in 0..MaxPageLen}
    \cup
    {[status |-> CodesOk, text |-> 3 + n, valid |-> TRUE, hasToken |-> TRUE,
      nextPageToken |-> t, n |-> n] : n \in 0..MaxPageLen, t \in {Token(p), None}}

\* A response that cannot be followed by another page.
Final(r) ==
    r.status # CodesOk \/ ~r.valid \/ ~r.hasToken \/ r.nextPageToken = None

\* ------------------------------------------------------------- HttpClient

usingWorkaroundsFor(workaround) ==
    workaround \in workarounds

\* An authentication that sends the key whatever the workarounds are.
getAuthAlways ==
    {<<"key", key>>}

getAuth ==
    IF usingWorkaroundsFor(workaroundGoogle) THEN {<<"key", key>>} ELSE {}

\* A status check that lets every status below 500 through.
checkStatusServerErrors(response) ==
    response.status >= 500

\* TRUE when _checkStatus raises.
checkStatus(response) ==
    response.status # CodesOk

updateBytesRead(count, response) ==
    count + response.text

\* The deserialized object: the list field and, when the class has it, the
\* token.
fromJsonString(response, p) ==
    [hasToken |-> response.hasToken,
     nextPageToken |-> response.nextPageToken,
     list |-> PageList(p, response.n)]

\* notDone taken from the presence of the attribute alone.
updateNotDoneHasattr(responseObject, request) ==
    IF responseObject.hasToken
    THEN [notDone |-> TRUE,
          request |-> [request EXCEPT !.pageToken = responseObject.nextPageToken]]
    ELSE [notDone |-> FALSE, request |-> request]

\* notDone computed, the token not copied into the request object.
updateNotDoneKeepToken(responseObject, request) ==
    [notDone |-> responseObject.hasToken /\ responseObject.nextPageToken # None,
     request |-> request]

\* The request's token cleared also when the response has no token attribute.
updateNotDoneClears(responseObject, request) ==
    IF responseObject.hasToken
    THEN [notDone |-> responseObject.nextPageToken # None,
          request |-> [request EXCEPT !.pageToken = responseObject.nextPageToken]]
    ELSE [notDone |-> FALSE, request |-> [request EXCEPT !.pageToken = None]]

\* _updateNotDone: the new value of notDone and the request object after it.
updateNotDone(responseObject, request) ==
    IF responseObject.hasToken
    THEN [notDone |-> responseObject.nextPageToken # None,
          request |-> [request EXCEPT !.pageToken = responseObject.nextPageToken]]
    ELSE [notDone |-> FALSE, request |-> request]

\* The call that _doRequest hands to requests.request.
httpCall(httpMethod, url, httpParams, httpData) ==
    [method |-> httpMethod, url |-> url,
     params |-> dictUpdate(getAuth, httpParams),
     data |-> httpData,
     headers |-> IF httpData # NoData
                 THEN {<<"Content-type", "application/json">>} ELSE {}]

NoError == [kind |-> "no", url |-> <<>>, status |-> 0]
NoObject == [hasToken |-> FALSE, nextPageToken |-> None, list |-> <<>>]
NoRequest == [pageToken |-> None, referenceName |-> "none"]

\* A deserializer that parses first and counts only what parsed.
deserializeResponseParseFirst(response, p) ==
    [bytesRead |-> IF response.valid THEN updateBytesRead(bytesRead, response)
                   ELSE bytesRead,
     error |-> IF response.valid THEN NoError
               ELSE [kind |-> "deserialize", url |-> <<>>, status |-> 0],
     object |-> IF response.valid THEN fromJsonString(response, p)
                ELSE NoObject]

\* _deserializeResponse: the byte counter is updated from the raw text, then
\* the text is parsed; fromJsonString raises on a body that does not parse.
deserializeResponse(response, p) ==
    [bytesRead |-> updateBytesRead(bytesRead, response),
     error |-> IF response.valid THEN NoError
               ELSE [kind |-> "deserialize", url |-> <<>>, status |-> 0],
     object |-> IF response.valid THEN fromJsonString(response, p)
                ELSE NoObject]

\* _doRequest: the call is made and answered, _checkStatus raises on a
\* status other than ok, otherwise the response is deserialized.  p is the
\* number of the request within its operation.
doRequest(httpMethod, url, httpParams, httpData, response, p) ==
    LET call == httpCall(httpMethod, url, httpParams, httpData)
        d == deserializeResponse(response, p)
    IN  IF checkStatus(response)
        THEN [exchange |-> [call |-> call, response |-> response],
              error |-> [kind |-> "status", url |-> url,
                         status |-> response.status],
              bytesRead |-> bytesRead,
              object |-> NoObject]
        ELSE [exchange |-> [call |-> call, response |-> response],
              error |-> d.error,
              bytesRead |-> d.bytesRead,
              object |-> d.object]

\* A loop that walks the page from its last element to its first.
extractReversed(responseObject, idx) ==
    responseObject.list[Len(responseObject.list) - idx]

\* A list runner that yields the page's list instead of the page.
yieldedList(responseObject) ==
    responseObject.list

\* yield responseObject: what the list runner hands over for a page.
yielded(responseObject) ==
    responseObject

\* for extract in getattr(responseObject, listAttr): the element the loop
\* yields after idx elements of the page.
extract(responseObject, idx) ==
    responseObject.list[idx + 1]

\* ------------------------------------------------------------------ state

NoGen ==
    [kind |-> "none", pc |-> "none", template |-> <<>>,
     id |-> "", fullUrl |-> <<>>, notDone |-> FALSE,
     responseObject |-> NoObject, idx |-> 0, pulls |-> 0, stopped |-> FALSE,
     error |-> NoError, given |-> NoRequest]

NoResult == [called |-> FALSE, objectName |-> "", id |-> "",
             returned |-> FALSE, object |-> NoObject, error |-> NoError]

NoSim ==
    [built |-> FALSE, queried |-> FALSE, randomSeed |-> 0, numCalls |-> 0,
     variantDensity |-> 1, createdOne |-> 0, createdTwo |-> 0,
     listOne |-> <<>>, listTwo |-> <<>>]

\* The clients constructed: HttpClient(urlPrefix, debugLevel, workarounds, key).
Clients ==
    {[urlPrefix |-> <<"http://h">>, workarounds |-> {}, key |-> "k"],
     [urlPrefix |-> <<"http://h", "/">>, workarounds |-> {workaroundGoogle},
      key |-> "k"]}

Init ==
    /\ \E c \in Clients :
        /\ urlPrefix = c.urlPrefix
        /\ workarounds = c.workarounds
        /\ key = c.key
    /\ bytesRead = 0
    /\ sent = 0
    /\ log = <<>>
    /\ protocolRequest = NoRequest
    /\ gen = NoGen
    /\ out = <<>>
    /\ getResult = NoResult
    /\ sim = NoSim

\* The generator body is between two suspension points.
Running == gen.pc \in {"loop", "for", "resume"}
\* A generator the caller may still pull from.
Live == gen.pc \in {"created", "suspended"}

\* The responses the server may give to the next request: the last request
\* of the session is answered with a page that has no successor.
Answers ==
    IF sent + 1 < MaxRequests THEN Responses(Len(log) + 1)
    ELSE {r \in Responses(Len(log) + 1) : Final(r)}

\* ---------------------------------------------------------- caller's steps

\* The typed search methods: URL suffix and list attribute.
SearchBindings ==
    {<<"variants", "variants">>}

\* A search that starts its body, and so its first request, when called.
CallSearchEager ==
    /\ ~Running /\ ~Live /\ sent < MaxRequests
    /\ \E request \in Requests, b \in SearchBindings :
        /\ protocolRequest' = request
        /\ gen' = [NoGen EXCEPT !.kind = "search", !.pc = "loop",
                                !.given = request, !.notDone = TRUE,
                                !.template = <<b[1] \o "/search">>,
                                !.fullUrl = posixpathJoin(
                                    urlPrefix, <<b[1] \o "/search">>)]
    /\ out' = <<>> /\ log' = <<>> /\ getResult' = NoResult
    /\ UNCHANGED <<urlPrefix, workarounds, key, bytesRead, sent, sim>>

\* runSearchRequest(protocolRequest, objectName, ...): calling a generator
\* function runs none of its body.
CallSearch ==
    /\ ~Running /\ ~Live /\ sent < MaxRequests
    /\ \E request \in Requests, b \in SearchBindings :
        /\ protocolRequest' = request
        /\ gen' = [NoGen EXCEPT !.kind = "search", !.pc = "created",
                                !.given = request,
                                !.template = <<b[1] \o "/search">>]
    /\ out' = <<>> /\ log' = <<>> /\ getResult' = NoResult
    /\ UNCHANGED <<urlPrefix, workarounds, key, bytesRead, sent, sim>>

\* runListRequest(protocolRequest, url, ..., id_), as listReferenceBases
\* calls it.
CallList ==
    /\ ~Running /\ ~Live /\ sent < MaxRequests
    /\ \E request \in Requests :
        /\ protocolRequest' = request
        /\ gen' = [NoGen EXCEPT !.kind = "list", !.pc = "created",
                                !.given = request,
                                !.template = <<"references", "/", "{id}",
                                               "/", "bases">>,
                                !.id = "id1"]
    /\ out' = <<>> /\ log' = <<>> /\ getResult' = NoResult
    /\ UNCHANGED <<urlPrefix, workarounds, key, bytesRead, sent, sim>>

\* next(generator) on a generator that has not finished: the body starts
\* (lines 106-107 and 122-123) or resumes after its yield.
Pull ==
    /\ Live
    /\ gen' = IF gen.pc = "created"
              THEN [gen EXCEPT !.pc = "loop", !.notDone = TRUE,
                               !.pulls = @ + 1,
                               !.fullUrl =
                                   IF gen.kind = "search"
                                   THEN posixpathJoin(urlPrefix, gen.template)
                                   ELSE format(
                                       posixpathJoin(urlPrefix, gen.template),
                                       gen.id, "")]
              ELSE [gen EXCEPT !.pc = "resume", !.pulls = @ + 1]
    /\ UNCHANGED <<urlPrefix, workarounds, key, bytesRead, sent, log,
                   protocolRequest, out, getResult, sim>>

\* next(generator) on a finished generator raises StopIteration and runs
\* nothing.
PullExhausted ==
    /\ gen.pc \in {"done", "failed"} /\ ~gen.stopped
    /\ gen' = [gen EXCEPT !.stopped = TRUE]
    /\ UNCHANGED <<urlPrefix, workarounds, key, bytesRead, sent, log,
                   protocolRequest, out, getResult, sim>>

\* The caller drops the generator at a suspension point.
Abandon ==
    /\ Live
    /\ gen' = [gen EXCEPT !.pc = "abandoned"]
    /\ UNCHANGED <<urlPrefix, workarounds, key, bytesRead, sent, log,
                   protocolRequest, out, getResult, sim>>

\* ------------------------------------------------------- generator's steps

\* while notDone: serialize the request, _doRequest (lines 108-111 and
\* 124-127).
Fetch ==
    /\ gen.pc = "loop" /\ gen.notDone
    /\ sent < MaxRequests
    /\ \E response \in Answers :
        LET r == IF gen.kind = "search"
                 THEN doRequest("POST", gen.fullUrl, {},
                                toJsonString(protocolRequest), response,
                                Len(log) + 1)
                 ELSE doRequest("GET", gen.fullUrl,
                                toJsonDict(protocolRequest), NoData, response,
                                Len(log) + 1)
        IN  /\ log' = Append(log, r.exchange)
            /\ sent' = sent + 1
            /\ bytesRead' = r.bytesRead
            /\ gen' = IF r.error # NoError
                      THEN [gen EXCEPT !.pc = "failed", !.error = r.error]
                      ELSE [gen EXCEPT !.pc = "for", !.idx = 0,
                                       !.responseObject = r.object]
    /\ UNCHANGED <<urlPrefix, workarounds, key, protocolRequest, out,
                   getResult, sim>>

\* while notDone: notDone is false, the generator returns.
LoopExit ==
    /\ gen.pc = "loop" /\ ~gen.notDone
    /\ gen' = [gen EXCEPT !.pc = "done"]
    /\ UNCHANGED <<urlPrefix, workarounds, key, bytesRead, sent, log,
                   protocolRequest, out, getResult, sim>>

\* for extract in getattr(responseObject, listAttr): yield extract; then
\* _updateNotDone (lines 112-114).
SearchFor ==
    /\ gen.kind = "search" /\ gen.pc \in {"for", "resume"}
    /\ IF gen.idx < Len(gen.responseObject.list)
       THEN /\ out' = Append(out, extract(gen.responseObject, gen.idx))
            /\ gen' = [gen EXCEPT !.pc = "suspended", !.idx = @ + 1]
            /\ UNCHANGED protocolRequest
       ELSE LET u == updateNotDone(gen.responseObject, protocolRequest)
            IN  /\ gen' = [gen EXCEPT !.pc = "loop", !.notDone = u.notDone]
                /\ protocolRequest' = u.request
                /\ UNCHANGED out
    /\ UNCHANGED <<urlPrefix, workarounds, key, bytesRead, sent, log, getResult,
                   sim>>

\* yield responseObject (line 128).
ListYield ==
    /\ gen.kind = "list" /\ gen.pc = "for"
    /\ out' = Append(out, yielded(gen.responseObject))
    /\ gen' = [gen EXCEPT !.pc = "suspended"]
    /\ UNCHANGED <<urlPrefix, workarounds, key, bytesRead, sent, log,
                   protocolRequest, getResult, sim>>

\* notDone = self._updateNotDone(responseObject, protocolRequest) (line 129).
ListResume ==
    /\ gen.kind = "list" /\ gen.pc = "resume"
    /\ LET u == updateNotDone(gen.responseObject, protocolRequest)
       IN  /\ gen' = [gen EXCEPT !.pc = "loop", !.notDone = u.notDone]
           /\ protocolRequest' = u.request
    /\ UNCHANGED <<urlPrefix, workarounds, key, bytesRead, sent, log, out,
                   getResult, sim>>

\* --------------------------------------------------------------- the getter

\* getReferenceSet and getReference.
GetBindings == {"referencesets", "references"}

\* runGetRequest(objectName, protocolResponseClass, id_): one _doRequest.
RunGet ==
    /\ ~Running /\ ~Live /\ sent < MaxRequests
    /\ \E objectName \in GetBindings, response \in Responses(1) :
        LET fullUrl == format(
                posixpathJoin(urlPrefix, <<"{objectName}", "/", "{id}">>),
                "id1", objectName)
            r == doRequest("GET", fullUrl, {}, NoData, response, 1)
        IN  /\ log' = <<r.exchange>>
            /\ sent' = sent + 1
            /\ bytesRead' = r.bytesRead
            /\ getResult' = [called |-> TRUE, objectName |-> objectName,
                             id |-> "id1", returned |-> r.error = NoError,
                             object |-> r.object,
                             error |-> r.error]
    /\ gen' = NoGen
    /\ out' = <<>>
    /\ UNCHANGED <<urlPrefix, workarounds, key, protocolRequest, sim>>

ClientNext ==
    \/ CallSearch
    \/ CallList
    \/ Pull
    \/ PullExhausted
    \/ Abandon
    \/ Fetch
    \/ LoopExit
    \/ SearchFor
    \/ ListYield
    \/ ListResume
    \/ RunGet

Spec == Init /\ [][ClientNext]_vars

\* The caller keeps pulling, every HTTP call returns and the generator body
\* runs on to its next suspension point.
SpecFair ==
    /\ Init /\ [][ClientNext]_vars
    /\ WF_vars(Pull) /\ WF_vars(Fetch) /\ WF_vars(LoopExit)
    /\ WF_vars(SearchFor) /\ WF_vars(ListYield) /\ WF_vars(ListResume)

\* ------------------------------------------------- SimulatedVariantSet

\* The alphabet of reference and alternate bases.
Bases == <<"A", "C", "G", "T">>

\* The n-th draw of a pseudo-random generator seeded with seed, in 0..7.
Draw(seed, n) ==
    ((seed * 5 + 3) * (n + 7) + n * n) % 8

\* A generator seeded from the clock instead of the configured seed.
variantSeedFromClock(instance, position) ==
    instance.created + position

\* The seed of the generator that makes the variant at a position.
variantSeed(instance, position) ==
    instance.randomSeed + position

\* The variant at a position: a compound id, one base each way, numCalls
\* calls, and the instance's creation time as created and updated.
generateVariant(instance, referenceName, position) ==
    LET seed == variantSeed(instance, position)
    IN  [id |-> <<instance.id, referenceName, position>>,
         variantSetId |-> instance.id,
         referenceName |-> referenceName,
         start |-> position,
         end |-> position + 1,
         referenceBases |-> Bases[(Draw(seed, 1) % 4) + 1],
         alternateBases |-> <<Bases[(Draw(seed, 2) % 4) + 1]>>,
         calls |-> [c \in 1..instance.numCalls |-> Draw(seed, 2 + c) % 2],
         created |-> instance.created,
         updated |-> instance.created]

\* getVariants: the positions of [start, end) at which the first draw, as a
\* fraction of 8, is below the variant density, each with its variant.
RECURSIVE getVariants(_, _, _, _)
getVariants(instance, referenceName, start, end) ==
    IF start >= end THEN <<>>
    ELSE (IF Draw(variantSeed(instance, start), 0) < instance.variantDensity * 8
          THEN <<generateVariant(instance, referenceName, start)>>
          ELSE <<>>)
         \o getVariants(instance, referenceName, start + 1, end)

\* One of the two variant sets of testConsistency.
Instance(created) ==
    [id |-> "variantSet1", randomSeed |-> sim.randomSeed,
     numCalls |-> sim.numCalls, variantDensity |-> sim.variantDensity,
     created |-> created]

\* Two SimulatedVariantSet objects are built with the same seed, number of
\* calls and density, each at its own time.
SimConstruct ==
    /\ ~sim.built
    /\ \E seed \in 0..2, calls \in 0..MaxNumCalls, density \in 1..2,
          one \in 1..2, two \in 1..2 :
        sim' = [NoSim EXCEPT !.built = TRUE, !.randomSeed = seed,
                             !.numCalls = calls, !.variantDensity = density,
                             !.createdOne = one, !.createdTwo = two]
    /\ UNCHANGED <<urlPrefix, workarounds, key, bytesRead, sent, log,
                   protocolRequest, gen, out, getResult>>

\* Both are asked for the variants of the same reference and range.
SimQuery ==
    /\ sim.built
    /\ \E referenceName \in {"ref", "other"}, start \in 0..MaxPosition,
          end \in 0..MaxPosition :
        /\ start <= end
        /\ sim' = [sim EXCEPT
                !.queried = TRUE,
                !.listOne = getVariants(Instance(sim.createdOne),
                                        referenceName, start, end),
                !.listTwo = getVariants(Instance(sim.createdTwo),
                                        referenceName, start, end)]
    /\ UNCHANGED <<urlPrefix, workarounds, key, bytesRead, sent, log,
                   protocolRequest, gen, out, getResult>>

SimNext ==
    \/ SimConstruct
    \/ SimQuery

SpecSim == Init /\ [][SimNext]_vars

\* ------------------------------------------------------------- observations

\* The exchange was answered with status ok and a body that parsed.
Served(e) == e.response.status = CodesOk /\ e.response.valid

\* The token of a served page is absent or null.
LastPage(e) == ~e.response.hasToken \/ e.response.nextPageToken = None

\* The list fields of the pages of the first k exchanges, in page order.
PageLists(k) == [i \in 1..k |-> PageList(i, log[i].response.n)]

\* The response objects of the first k exchanges, in page order.
PageObjects(k) ==
    [i \in 1..k |-> [hasToken |-> log[i].response.hasToken,
                     nextPageToken |-> log[i].response.nextPageToken,
                     list |-> PageList(i, log[i].response.n)]]

IsPrefix(s, t) == Len(s) <= Len(t) /\ s = SubSeq(t, 1, Len(s))

\* ------------------------------------------------------------------ claims

\* C1: whatever a search generator has handed over is a prefix of the
\* concatenation of the list fields of the pages fetched, in page order and
\* in the server's order within a page; once the generator is exhausted the
\* last page fetched is the one whose token is null or absent, every page
\* before it carried a token, and the elements handed over are exactly that
\* concatenation, each element once.
C1_SearchYieldsConcatenation ==
    gen.kind = "search" =>
        /\ IsPrefix(out, Flatten(PageLists(Len(log))))
        /\ gen.pc = "done" =>
            /\ Len(log) >= 1
            /\ \A i \in 1..Len(log) : Served(log[i])
            /\ \A i \in 1..(Len(log) - 1) : ~LastPage(log[i])
            /\ LastPage(log[Len(log)])
            /\ out = Flatten(PageLists(Len(log)))

\* A search over two non-empty pages has been consumed to its end.
C1_Witness ==
    /\ gen.kind = "search" /\ gen.pc = "done"
    /\ Len(log) = 2
    /\ log[1].response.n = MaxPageLen /\ log[2].response.n = MaxPageLen
    /\ Len(out) = 2 * MaxPageLen

\* C2: in a search or list generator a response with a status other than ok
\* is the last exchange of the generator: the generator has failed with an
\* error that carries the URL of the request and the status, what was handed
\* over before is the content of the pages before it and nothing of the
\* failing page, and a further pull issues no request.
C2_FailedStatusEndsSequence ==
    gen.kind # "none" =>
        \A i \in 1..Len(log) :
            log[i].response.status # CodesOk =>
                /\ i = Len(log)
                /\ gen.pc = "failed"
                /\ gen.error = [kind |-> "status", url |-> log[i].call.url,
                                status |-> log[i].response.status]
                /\ \A j \in 1..(i - 1) : Served(log[j])
                /\ out = IF gen.kind = "search"
                         THEN Flatten(PageLists(i - 1))
                         ELSE PageObjects(i - 1)

\* The second page of a search failed after the first page was handed over,
\* and the caller has pulled once more.
C2_Witness ==
    /\ gen.kind = "search" /\ gen.pc = "failed" /\ gen.stopped
    /\ gen.error.kind = "status"
    /\ Len(log) = 2 /\ Len(out) = MaxPageLen


\* C3: a generator that has been exhausted has as its last exchange a served
\* page whose token is null or absent, so it never stops after a page that
\* carries a token; it never asks for a page after one whose token is null
\* or absent; and, with a caller that keeps pulling and a server that ends
\* its pages, every generator created comes to an end.
C3_TerminatesIffLastPage ==
    /\ [](gen.pc = "done" =>
            /\ Len(log) >= 1
            /\ Served(log[Len(log)]) /\ LastPage(log[Len(log)]))
    /\ [](gen.kind # "none" =>
            \A i \in 1..(Len(log) - 1) : Served(log[i]) /\ ~LastPage(log[i]))
    /\ [](gen.pc = "created" => <>(gen.pc \in {"done", "failed", "abandoned"}))

\* A list generator came to its end on its third page.
C3_Witness ==
    /\ gen.kind = "list" /\ gen.pc = "done"
    /\ Len(log) = MaxRequests

\* The request object a call carried, read back from its wire form.
SentRequest(call) ==
    IF call.method = "POST"
    THEN [pageToken |-> call.data[2][2], referenceName |-> call.data[3][2]]
    ELSE [pageToken |-> (CHOOSE p \in call.params : p[1] = "pageToken")[2],
          referenceName |->
              (CHOOSE p \in call.params : p[1] = "referenceName")[2]]

\* C4: the first request of a generator carries the token the caller put in
\* the request object, every later request carries the nextPageToken of the
\* response before it, and the other field of the request never changes.
C4_TokenCarriedVerbatim ==
    gen.kind # "none" =>
        \A k \in 1..Len(log) :
            /\ SentRequest(log[k].call).referenceName = gen.given.referenceName
            /\ SentRequest(log[k].call).pageToken =
                   IF k = 1 THEN gen.given.pageToken
                   ELSE log[k - 1].response.nextPageToken
            /\ k > 1 => log[k - 1].response.nextPageToken # None

\* A list generator that was given a token has sent its third request.
C4_Witness ==
    /\ gen.kind = "list" /\ Len(log) = 3
    /\ gen.given.pageToken = "xyz"
    /\ SentRequest(log[3].call).pageToken = Token(2)

\* <prefix>/<resourceName>/<id>, the prefix taken without its final slash.
GetUrl(objectName, id) ==
    (IF urlPrefix # <<>> /\ Last(urlPrefix) = "/"
     THEN SubSeq(urlPrefix, 1, Len(urlPrefix) - 1) ELSE urlPrefix)
    \o <<"/", objectName, "/", id>>

\* What a runGetRequest has done, but for the query parameters: one GET on
\* the resource's URL with no body, the object returned when the response was
\* served, an error and no object otherwise.
GetDoes ==
    /\ gen.kind = "none"
    /\ Len(log) = 1
    /\ log[1].call.method = "GET"
    /\ log[1].call.url = GetUrl(getResult.objectName, getResult.id)
    /\ log[1].call.data = NoData
    /\ Served(log[1]) =>
        /\ getResult.returned
        /\ getResult.object = PageObjects(1)[1]
    /\ ~Served(log[1]) => ~getResult.returned
    /\ log[1].response.status # CodesOk =>
        getResult.error = [kind |-> "status", url |-> log[1].call.url,
                           status |-> log[1].response.status]

\* C5 as stated: runGetRequest issues one GET on <prefix>/<resourceName>/<id>
\* with no body and no query parameters, and returns the deserialized object
\* or fails.
C5_Original ==
    getResult.called => (GetDoes /\ log[1].call.params = {})

\* C5 amended: runGetRequest issues one GET on <prefix>/<resourceName>/<id>
\* with no body and no query parameter but the key, which is sent exactly
\* when the google workaround is active; it returns the deserialized object
\* or fails.
C5_GetOnceWithAuthOnly ==
    getResult.called =>
        /\ GetDoes
        /\ log[1].call.params =
               IF workaroundGoogle \in workarounds THEN {<<"key", key>>}
               ELSE {}

\* A get was answered with an object that carries a continuation token, by
\* a client without workarounds.
C5_Witness ==
    /\ getResult.called /\ getResult.returned
    /\ getResult.object.nextPageToken # None
    /\ workarounds = {}
    /\ sent = 2

\* How many of the exchanges of the operation were served.
ServedCount == Cardinality({i \in 1..Len(log) : Served(log[i])})

\* What a list generator does, but for the count of pulls: every request is
\* a GET without body, the objects handed over are the pages served, whole
\* and in fetch order, and the generator ends right after the page whose
\* token is null or absent.
ListDoes ==
    /\ \A i \in 1..Len(log) :
        log[i].call.method = "GET" /\ log[i].call.data = NoData
    /\ IsPrefix(out, PageObjects(Len(log)))
    /\ ~Running => Len(out) = ServedCount
    /\ gen.pc = "done" =>
        /\ Len(out) = Len(log)
        /\ LastPage(log[Len(log)])
        /\ \A i \in 1..(Len(log) - 1) : ~LastPage(log[i])

\* C6 as stated: besides the above, each pull issues exactly one GET, so at
\* every suspension point and at the end there are as many requests as pulls.
C6_Original ==
    gen.kind = "list" =>
        /\ ListDoes
        /\ ~Running => gen.pulls = Len(log)

\* C6 amended: besides the above, each pull that yields an object, or fails,
\* issues exactly one GET, and the pull that ends the sequence issues none.
C6_ListYieldsPages ==
    gen.kind = "list" =>
        /\ ListDoes
        /\ gen.pc \in {"created", "suspended", "failed", "abandoned"} =>
            gen.pulls = Len(log)
        /\ gen.pc = "done" => gen.pulls = Len(log) + 1
        /\ Running => gen.pulls \in {Len(log), Len(log) + 1}

\* A list generator has been exhausted after two pages.
C6_Witness ==
    /\ gen.kind = "list" /\ gen.pc = "done"
    /\ Len(log) = 2 /\ Len(out) = 2 /\ gen.pulls = 3

C8_LazyPagination ==
    gen.kind = "search" =>
        /\ gen.pc = "created" => (log = <<>> /\ gen.pulls = 0)
        /\ Len(log) >= 1 =>
            /\ Len(out) >= Len(Flatten(PageLists(Len(log) - 1)))
            /\ gen.pulls > Len(Flatten(PageLists(Len(log) - 1)))
        /\ (gen.pc \in {"suspended", "abandoned"} /\ out # <<>>) =>
            /\ out[Len(out)][1] = Len(log)
            /\ gen.pulls = Len(out)

\* A search was abandoned after the first element of a first page that
\* announces a second one.
C8_Witness ==
    /\ gen.kind = "search" /\ gen.pc = "abandoned"
    /\ Len(log) = 1 /\ Len(out) = 1
    /\ log[1].response.n = MaxPageLen
    /\ ~LastPage(log[1])

\* The response object with the token attribute null instead of absent, and
\* absent instead of null.
Twin(responseObject) ==
    [responseObject EXCEPT !.hasToken = ~responseObject.hasToken]

\* The generator is about to call _updateNotDone on a page without successor.
AtLastUpdate ==
    /\ gen.pc \in {"for", "resume"}
    /\ gen.kind = "search" => gen.idx = Len(gen.responseObject.list)
    /\ gen.kind = "list" => gen.pc = "resume"
    /\ gen.responseObject.nextPageToken = None

Timeless(variant) ==
    [variant EXCEPT !.created = 0, !.updated = 0]

====
